---- MODULE Spec2Model ----
(***************************************************************************)
(* Model of the Gen3D application (goalie2013/3d-models-glb).              *)
(*                                                                         *)
(*   src/App.tsx                    App component: prompt, status,         *)
(*                                  generatedCode, currentModel, history,  *)
(*                                  abortControllerRef and their handlers  *)
(*   src/components/ScenePreview.tsx ScenePreview / GeneratedObject /      *)
(*                                  ModelObject: effect, cleanup, wireframe*)
(*   src/utils/threeHelpers.ts      executeGeneratedCode                   *)
(*   src/services/geminiService.ts  generate3DModelCode (the awaited call) *)
(*                                                                         *)
(* React is modelled as it schedules this code: a handler called from a    *)
(* click/change event runs, and React flushes the resulting render and its *)
(* effects before the event ends (one action); state set after an await or *)
(* inside an effect is rendered by a later scheduler task (action          *)
(* ScheduledRender).  `ui` is what the last App render showed: handlers    *)
(* are closures of that render and buttons exist only as rendered.         *)
(*                                                                         *)
(* three.js objects live in `heap`, a sequence of objects; an object's id  *)
(* is its index, 0 is null / "not an Object3D".                            *)
(***************************************************************************)
EXTENDS Integers, Sequences, FiniteSets, TLC

(* ---------------------------- bounds ----------------------------------- *)
MaxRequests == 3      \* generation requests issued in one behaviour
MaxEvals == 2         \* executeGeneratedCode calls in one behaviour of the application
MaxExecCalls == 3     \* executeGeneratedCode calls in one behaviour of SpecExec
MaxUploads == 3       \* files uploaded in one behaviour
MaxExports == 2       \* exportToBinaryGLB calls in one behaviour
MaxChunks == 4        \* pieces a response text is put together from
MaxPrefix == 2        \* length of the free part of a prompt text
MaxPad == 21          \* length of the repeated part of a prompt text

(* ---------------------------- inputs ----------------------------------- *)
\* Prompt texts the user can type: empty or a real prompt.
Prompts == {"", "a"}

\* String.prototype.trim: a blank text trims to the empty one.
Trim(p) == IF p = " " THEN "" ELSE p

\* What a program text does when compiled with new Function(`return ${code}`)()
\* and invoked with THREE.  `returns` names the object tree the invocation
\* builds and returns.
Program(compiles, isFunction, throws, returns) ==
    [compiles |-> compiles, isFunction |-> isFunction, throws |-> throws, returns |-> returns]

\* The program texts of the model.  "" is the empty text: `return ` yields
\* undefined, which is not a function.
CodeTable ==
    [c \in {"", "grp", "grp0", "mesh", "line", "nest", "wire", "throw", "num", "syntax",
            "notfn"} |->
       CASE c = ""       -> Program(TRUE,  FALSE, FALSE, "None")
         [] c = "grp"    -> Program(TRUE,  TRUE,  FALSE, "Group2")
         [] c = "grp0"   -> Program(TRUE,  TRUE,  FALSE, "GroupEmpty")
         [] c = "mesh"   -> Program(TRUE,  TRUE,  FALSE, "Mesh")
         [] c = "line"   -> Program(TRUE,  TRUE,  FALSE, "Line")
         [] c = "nest"   -> Program(TRUE,  TRUE,  FALSE, "ObjectWithMesh")
         [] c = "wire"   -> Program(TRUE,  TRUE,  FALSE, "GroupWire")
         [] c = "throw"  -> Program(TRUE,  TRUE,  TRUE,  "Mesh")
         [] c = "num"    -> Program(TRUE,  TRUE,  FALSE, "Number")
         [] c = "syntax" -> Program(FALSE, FALSE, FALSE, "None")
         [] c = "notfn"  -> Program(TRUE,  FALSE, FALSE, "None")]

AllCodes == DOMAIN CodeTable

\* Texts the generation service answers with in the application model.
ResponseCodes == {"", "grp", "throw"}

\* Texts the generation service answers with in the wireframe model: a group
\* with a single-material and a material-array mesh, a bare mesh, an
\* Object3D with a mesh below it, a group whose mesh the program created
\* with { wireframe: true }.
WireCodes == {"grp", "mesh", "nest", "wire"}

(* ---------------------------- three.js objects ------------------------- *)
Null == 0

\* The element of a one-element set.  The({F(x) : x \in {e}}) is F(e) with
\* e evaluated once, as a statement sequence evaluates it.
The(S) == CHOOSE x \in S : TRUE

\* A material descriptor: dispose() calls received, wireframe, needsUpdate.
NewMaterial == [disposed |-> 0, wireframe |-> FALSE, needsUpdate |-> FALSE]

\* new THREE.Group() / new THREE.Object3D(): no geometry, no material.
NewNode(kind, children) ==
    [kind |-> kind, children |-> children, parent |-> Null,
     geometry |-> 0, material |-> << >>, materialIsArray |-> FALSE]

\* new THREE.Mesh(geometry, material): `geometry` counts dispose() calls on
\* its geometry; material is one descriptor or an array of two.
NewMesh(isArray, parent) ==
    [kind |-> "Mesh", children |-> << >>, parent |-> parent, geometry |-> 0,
     material |-> IF isArray THEN <<NewMaterial, NewMaterial>> ELSE <<NewMaterial>>,
     materialIsArray |-> isArray]

\* new THREE.Line(geometry, material): drawable, but not a THREE.Mesh.
NewLine == [kind |-> "Line", children |-> << >>, parent |-> Null, geometry |-> 0,
            material |-> <<NewMaterial>>, materialIsArray |-> FALSE]

\* x instanceof THREE.Group / THREE.Mesh / THREE.Object3D
IsGroup(h, v) == v # Null /\ h[v].kind = "Group"
IsMesh(h, v) == v # Null /\ h[v].kind = "Mesh"
IsObject3D(h, v) == v # Null

\* Object3D.traverse: the object and all its descendants.
RECURSIVE Traverse(_, _)
Traverse(h, id) ==
    {id} \cup UNION {Traverse(h, h[id].children[i]) : i \in 1..Len(h[id].children)}

\* Object3D.add(child) on a freshly created parent.
Add(h, parent, child) ==
    [h EXCEPT ![parent].children = Append(@, child), ![child].parent = parent]

(* ---------------------------- executeGeneratedCode -------------------- *)
\* generatorFunc(THREE): the invocation allocates the program's objects at
\* the end of the heap and returns the root (Null for a non-object value).
\* A throwing program has allocated a mesh before it throws.
Invoke(prog, h) ==
    LET n == Len(h) IN
    CASE prog.throws ->
             [heap |-> Append(h, NewMesh(FALSE, Null)), value |-> Null, threw |-> TRUE]
      [] ~prog.throws /\ prog.returns = "Group2" ->
             [heap |-> h \o <<NewNode("Group", <<n + 2, n + 3>>),
                              NewMesh(FALSE, n + 1), NewMesh(TRUE, n + 1)>>,
              value |-> n + 1, threw |-> FALSE]
      [] ~prog.throws /\ prog.returns = "GroupEmpty" ->
             [heap |-> Append(h, NewNode("Group", << >>)), value |-> n + 1, threw |-> FALSE]
      [] ~prog.throws /\ prog.returns = "Mesh" ->
             [heap |-> Append(h, NewMesh(FALSE, Null)), value |-> n + 1, threw |-> FALSE]
      [] ~prog.throws /\ prog.returns = "Line" ->
             [heap |-> Append(h, NewLine), value |-> n + 1, threw |-> FALSE]
      [] ~prog.throws /\ prog.returns = "GroupWire" ->
             [heap |-> h \o <<NewNode("Group", <<n + 2>>),
                              [NewMesh(FALSE, n + 1) EXCEPT !.material[1].wireframe = TRUE]>>,
              value |-> n + 1, threw |-> FALSE]
      [] ~prog.throws /\ prog.returns = "ObjectWithMesh" ->
             [heap |-> h \o <<NewNode("Object3D", <<n + 2>>), NewMesh(FALSE, n + 1)>>,
              value |-> n + 1, threw |-> FALSE]
      [] OTHER ->
             [heap |-> h, value |-> Null, threw |-> FALSE]

\* const wrapper = new THREE.Group(); wrapper.add(group); return wrapper;
Wrap(h, raw) ==
    LET w == Len(h) + 1 IN
    [heap |-> Add(Append(h, NewNode("Group", << >>)), w, raw), result |-> w]

\* The value executeGeneratedCode returns, with the heap it leaves behind.
\* `raw` is what the invocation returned, `invoked` the heap right after the
\* invocation, `outcome` the path taken through the function.
ExecResult(h, result, raw, outcome, invoked) ==
    [heap |-> h, result |-> result, raw |-> raw, outcome |-> outcome, invoked |-> invoked]

\* Mutant of normalize: whatever Object3D comes back is wrapped.
normalize_AlwaysWrap(inv) ==
    IF inv.threw THEN ExecResult(inv.heap, Null, Null, "Threw", inv.heap)
    ELSE IF IsObject3D(inv.heap, inv.value)
      THEN LET w == Wrap(inv.heap, inv.value)
           IN ExecResult(w.heap, w.result, inv.value, "Wrapped", inv.heap)
      ELSE ExecResult(inv.heap, Null, inv.value, "Invalid", inv.heap)

\* Mutant of normalize: a bare mesh is returned as it is.
normalize_MeshUnwrapped(inv) ==
    IF inv.threw THEN ExecResult(inv.heap, Null, Null, "Threw", inv.heap)
    ELSE IF ~IsGroup(inv.heap, inv.value) /\ ~IsMesh(inv.heap, inv.value) THEN
      IF IsObject3D(inv.heap, inv.value)
        THEN LET w == Wrap(inv.heap, inv.value)
             IN ExecResult(w.heap, w.result, inv.value, "Wrapped", inv.heap)
        ELSE ExecResult(inv.heap, Null, inv.value, "Invalid", inv.heap)
    ELSE ExecResult(inv.heap, inv.value, inv.value, "Group", inv.heap)

\* Mutant of normalize: a value that is no Object3D gets an empty wrapper
\* instead of the Error.
normalize_WrapInvalid(inv) ==
    IF inv.threw THEN ExecResult(inv.heap, Null, Null, "Threw", inv.heap)
    ELSE IF ~IsGroup(inv.heap, inv.value) /\ ~IsMesh(inv.heap, inv.value) THEN
      IF IsObject3D(inv.heap, inv.value)
        THEN LET w == Wrap(inv.heap, inv.value)
             IN ExecResult(w.heap, w.result, inv.value, "Wrapped", inv.heap)
        ELSE ExecResult(Append(inv.heap, NewNode("Group", << >>)), Len(inv.heap) + 1,
                        inv.value, "Wrapped", inv.heap)
    ELSE IF IsGroup(inv.heap, inv.value)
      THEN ExecResult(inv.heap, inv.value, inv.value, "Group", inv.heap)
      ELSE LET w == Wrap(inv.heap, inv.value)
           IN ExecResult(w.heap, w.result, inv.value, "Wrapped", inv.heap)

\* executeGeneratedCode from the instanceof checks on: inv is the outcome of
\* generatorFunc(THREE).
normalize(inv) ==
    IF inv.threw THEN ExecResult(inv.heap, Null, Null, "Threw", inv.heap)
    ELSE IF ~IsGroup(inv.heap, inv.value) /\ ~IsMesh(inv.heap, inv.value) THEN
      IF IsObject3D(inv.heap, inv.value)
        THEN LET w == Wrap(inv.heap, inv.value)
             IN ExecResult(w.heap, w.result, inv.value, "Wrapped", inv.heap)
        ELSE ExecResult(inv.heap, Null, inv.value, "Invalid", inv.heap)
    ELSE IF IsGroup(inv.heap, inv.value)
      THEN ExecResult(inv.heap, inv.value, inv.value, "Group", inv.heap)
      ELSE LET w == Wrap(inv.heap, inv.value)
           IN ExecResult(w.heap, w.result, inv.value, "Wrapped", inv.heap)

executeGeneratedCode(code, h) ==
    IF ~CodeTable[code].compiles THEN ExecResult(h, Null, Null, "SyntaxError", h)
    ELSE IF ~CodeTable[code].isFunction THEN ExecResult(h, Null, Null, "NotAFunction", h)
    ELSE The({normalize(inv) : inv \in {Invoke(CodeTable[code], h)}})

\* No executeGeneratedCode call has happened yet.
NoExec == [code |-> "", result |-> Null, raw |-> Null, outcome |-> "None", invoked |-> << >>]

(* ---------------------------- GeneratedObject / ModelObject ------------ *)
\* Mutant of cleanupGeneratedObject: a material array is not walked, only
\* its first material is disposed.
cleanupGeneratedObject_FirstMaterialOnly(h, generatedGroup) ==
    LET t == Traverse(h, generatedGroup) IN
    [i \in 1..Len(h) |->
       IF i \in t /\ h[i].kind = "Mesh"
         THEN [h[i] EXCEPT
                 !.geometry = @ + 1,
                 !.material = [k \in DOMAIN @ |->
                                 IF k = 1 THEN [@[k] EXCEPT !.disposed = @ + 1] ELSE @[k]]]
         ELSE h[i]]

\* The cleanup the GeneratedObject effect returns: traverse the group and
\* dispose the geometry and every material of each mesh.
cleanupGeneratedObject(h, generatedGroup) ==
    LET t == Traverse(h, generatedGroup) IN
    [i \in 1..Len(h) |->
       IF i \in t /\ h[i].kind = "Mesh"
         THEN [h[i] EXCEPT
                 !.geometry = @ + 1,
                 !.material = IF h[i].materialIsArray
                                THEN [k \in DOMAIN @ |-> [@[k] EXCEPT !.disposed = @ + 1]]
                                ELSE <<[@[1] EXCEPT !.disposed = @ + 1]>>]
         ELSE h[i]]

\* Mutant of applyWireframe: a material array is left alone.
applyWireframe_SkipArrays(h, group, wireframe) ==
    LET t == Traverse(h, group) IN
    [i \in 1..Len(h) |->
       IF i \in t /\ h[i].kind = "Mesh" /\ ~h[i].materialIsArray
         THEN [h[i] EXCEPT
                 !.material = [k \in DOMAIN @ |->
                                 [@[k] EXCEPT !.wireframe = wireframe, !.needsUpdate = TRUE]]]
         ELSE h[i]]

\* Mutant of applyWireframe: the flag is switched on but never off.
applyWireframe_Sticky(h, group, wireframe) ==
    LET t == Traverse(h, group) IN
    [i \in 1..Len(h) |->
       IF i \in t /\ h[i].kind = "Mesh"
         THEN [h[i] EXCEPT
                 !.material = [k \in DOMAIN @ |->
                                 [@[k] EXCEPT !.wireframe = @ \/ wireframe,
                                              !.needsUpdate = TRUE]]]
         ELSE h[i]]

\* The ModelObject effect: set the wireframe flag on every material of every
\* mesh of the group and mark it as needing an update.
applyWireframe(h, group, wireframe) ==
    LET t == Traverse(h, group) IN
    [i \in 1..Len(h) |->
       IF i \in t /\ h[i].kind = "Mesh"
         THEN [h[i] EXCEPT
                 !.material = [k \in DOMAIN @ |->
                                 [@[k] EXCEPT !.wireframe = wireframe, !.needsUpdate = TRUE]]]
         ELSE h[i]]

(* ---------------------------- state ---------------------------------- *)
VARIABLES
    mode,               \* App: 'generator' | 'viewer'
    prompt,             \* App: prompt text
    status,             \* App: GenerationStatus
    generatedCode,      \* App: program text handed to ScenePreview
    currentModel,       \* App: the group Download exports (Null if none)
    history,            \* App: HistoryItem[], most recent first
    abortControllerRef, \* App: abortControllerRef.current (controller id or Null)
    aborted,            \* AbortController n: aborted[n] is its signal.aborted
    pending,            \* generate3DModelCode calls still awaited
    ui,                 \* the App state as of the last App render
    previewMounted,     \* ScenePreview is mounted
    wireframe,          \* ScenePreview: wireframe toggle
    generatedObjectMounted, \* GeneratedObject is mounted
    group,              \* GeneratedObject: group state (Null if none)
    cleanup,            \* group captured by the registered effect cleanup
    heap,               \* three.js objects
    lastExec,           \* the last executeGeneratedCode call and its result
    evalCount,          \* executeGeneratedCode calls so far
    published,          \* history variable: groups passed to onLoaded, in order
    cycleScenes,        \* history variable: onLoaded calls since generatedCode was last assigned
    dropped,            \* history variable: a resolved response was dropped after abort
    uploadedFileUrl,    \* App: object URL of the uploaded file (Null if none)
    uploadedFileName,   \* App: name of the uploaded file ("" if none)
    objectUrls,         \* the browser's object URLs: URL n is objectUrls[n]
    objectUrlLog,       \* history variable: createObjectURL / revokeObjectURL /
                        \* setUploadedFileUrl calls, in order
    exportsPending,     \* GLTFExporter.parse calls whose callback has not run yet
    exports,            \* history variable: completed parse calls, in order
    downloads,          \* files saved through the download link, in order
    console,            \* console.warn / console.error calls of the export, in order
    lastCall            \* the last application of a text function and its result

\* The state of App, ScenePreview and GeneratedObject.
appVars == <<mode, prompt, status, generatedCode, currentModel, history,
             abortControllerRef, aborted, pending, ui, previewMounted, wireframe,
             generatedObjectMounted, group, cleanup, heap, lastExec, evalCount,
             published, cycleScenes, dropped>>

\* The uploaded file of the viewer mode.
uploadVars == <<uploadedFileUrl, uploadedFileName, objectUrls, objectUrlLog>>

\* The export of the current model.
exportVars == <<exportsPending, exports, downloads, console>>

vars == <<appVars, uploadVars, exportVars, lastCall>>

\* The whole state as a record, so that a handler and the render React
\* flushes after it compose.
St ==
    [mode |-> mode, prompt |-> prompt, status |-> status, generatedCode |-> generatedCode,
     currentModel |-> currentModel, history |-> history,
     abortControllerRef |-> abortControllerRef, aborted |-> aborted, pending |-> pending,
     ui |-> ui, previewMounted |-> previewMounted, wireframe |-> wireframe,
     generatedObjectMounted |-> generatedObjectMounted, group |-> group, cleanup |-> cleanup,
     heap |-> heap, lastExec |-> lastExec, evalCount |-> evalCount,
     published |-> published, cycleScenes |-> cycleScenes, dropped |-> dropped]

Install(s) ==
    /\ mode' = s.mode
    /\ prompt' = s.prompt
    /\ status' = s.status
    /\ generatedCode' = s.generatedCode
    /\ currentModel' = s.currentModel
    /\ history' = s.history
    /\ abortControllerRef' = s.abortControllerRef
    /\ aborted' = s.aborted
    /\ pending' = s.pending
    /\ ui' = s.ui
    /\ previewMounted' = s.previewMounted
    /\ wireframe' = s.wireframe
    /\ generatedObjectMounted' = s.generatedObjectMounted
    /\ group' = s.group
    /\ cleanup' = s.cleanup
    /\ heap' = s.heap
    /\ lastExec' = s.lastExec
    /\ evalCount' = s.evalCount
    /\ published' = s.published
    /\ cycleScenes' = s.cycleScenes
    /\ dropped' = s.dropped

\* The useState values one App render reads.
Snapshot(s) ==
    [mode |-> s.mode, prompt |-> s.prompt, status |-> s.status,
     generatedCode |-> s.generatedCode, currentModel |-> s.currentModel,
     history |-> s.history]

\* No text function has been applied yet.
NoCall == [fn |-> "none", absent |-> FALSE, input |-> << >>, output |-> << >>]

Init ==
    /\ mode = "generator"
    /\ prompt = ""
    /\ status = "IDLE"
    /\ generatedCode = ""
    /\ currentModel = Null
    /\ history = << >>
    /\ abortControllerRef = Null
    /\ aborted = << >>
    /\ pending = {}
    /\ ui = [mode |-> "generator", prompt |-> "", status |-> "IDLE", generatedCode |-> "",
             currentModel |-> Null, history |-> << >>]
    /\ previewMounted = TRUE
    /\ wireframe = FALSE
    /\ generatedObjectMounted = FALSE
    /\ group = Null
    /\ cleanup = Null
    /\ heap = << >>
    /\ lastExec = NoExec
    /\ evalCount = 0
    /\ published = << >>
    /\ cycleScenes = 0
    /\ dropped = FALSE
    /\ uploadedFileUrl = Null
    /\ uploadedFileName = ""
    /\ objectUrls = << >>
    /\ objectUrlLog = << >>
    /\ exportsPending = << >>
    /\ exports = << >>
    /\ downloads = << >>
    /\ console = << >>
    /\ lastCall = NoCall

(* ---------------------------- rendering -------------------------------- *)
\* Mutant of runCleanup: the previous effect's cleanup is dropped unrun.
runCleanup_Skipped(s) == [s EXCEPT !.cleanup = Null]

\* React runs the cleanup of the previous GeneratedObject effect, if that
\* effect returned one.
runCleanup(s) ==
    IF s.cleanup # Null
      THEN [s EXCEPT !.heap = cleanupGeneratedObject(s.heap, s.cleanup), !.cleanup = Null]
      ELSE s

\* The GeneratedObject effect after executeGeneratedCode returned r.
\* setGroup makes GeneratedObject render ModelObject with the new group,
\* whose effect applies the wireframe flag; onLoaded is App's setCurrentModel.
effectAfterExecute(s, r) ==
    LET exec == [code |-> s.ui.generatedCode, result |-> r.result, raw |-> r.raw,
                 outcome |-> r.outcome, invoked |-> r.invoked]
    IN
    IF r.result # Null
      THEN [s EXCEPT !.heap = applyWireframe(r.heap, r.result, s.wireframe),
                     !.group = r.result,
                     !.currentModel = r.result,
                     !.cleanup = r.result,
                     !.lastExec = exec,
                     !.evalCount = @ + 1,
                     !.published = Append(@, r.result),
                     !.cycleScenes = @ + 1]
      ELSE [s EXCEPT !.heap = r.heap, !.lastExec = exec, !.evalCount = @ + 1]

\* Body of the GeneratedObject effect for the rendered code.
runEffect(s) ==
    IF s.ui.generatedCode = "" THEN s
    ELSE The({effectAfterExecute(s, r) :
                r \in {executeGeneratedCode(s.ui.generatedCode, s.heap)}})

\* {code && <GeneratedObject .../>} with an empty code: unmount.
unmountGeneratedObject(s) ==
    [runCleanup(s) EXCEPT !.generatedObjectMounted = FALSE, !.group = Null]

\* mode 'viewer': ScenePreview is not rendered.
unmountScenePreview(s) ==
    [unmountGeneratedObject(s) EXCEPT !.previewMounted = FALSE, !.wireframe = FALSE]

\* The commit of an App render that showed s.ui.  onModelReady is a new
\* arrow function in every render, so the [code, onLoaded] dependencies of
\* the GeneratedObject effect differ from the previous render's and the
\* effect runs again, after the cleanup of its previous run.
commit(s) ==
    IF s.ui.mode # "generator" THEN unmountScenePreview(s)
    ELSE IF s.ui.generatedCode = ""
      THEN unmountGeneratedObject([s EXCEPT !.previewMounted = TRUE])
    ELSE IF ~s.generatedObjectMounted
      THEN The({runEffect(m) :
                  m \in {[s EXCEPT !.previewMounted = TRUE,
                                   !.generatedObjectMounted = TRUE,
                                   !.group = Null]}})
      ELSE The({runEffect(c) : c \in {runCleanup([s EXCEPT !.previewMounted = TRUE])}})

\* One App render and its commit.
render(s) == The({commit(r) : r \in {[s EXCEPT !.ui = Snapshot(s)]}})

\* End of a click/change event whose handler took state s0 to s1: React
\* renders before the event ends if the handler changed some useState value
\* (a setState to the current value bails out, and a handler that sets
\* nothing leaves an already scheduled render to the scheduler).
flush(s0, s1) == IF Snapshot(s1) # Snapshot(s0) THEN render(s1) ELSE s1

(* ---------------------------- App handlers ----------------------------- *)
\* Mutant of handleGenerate: the current model is kept while generating.
handleGenerate_KeepModel(s) ==
    IF Trim(s.ui.prompt) = "" THEN s
    ELSE
      LET controller == Len(s.aborted) + 1
          signalled == IF s.abortControllerRef # Null
                         THEN [s.aborted EXCEPT ![s.abortControllerRef] = TRUE]
                         ELSE s.aborted
      IN [s EXCEPT !.aborted = Append(signalled, FALSE),
                   !.abortControllerRef = controller,
                   !.status = "GENERATING",
                   !.generatedCode = "",
                   !.cycleScenes = 0,
                   !.pending = @ \cup {[controller |-> controller, prompt |-> s.ui.prompt]}]

\* Mutant of handleGenerate: the previous controller is not aborted.
handleGenerate_NoAbort(s) ==
    IF Trim(s.ui.prompt) = "" THEN s
    ELSE
      LET controller == Len(s.aborted) + 1
      IN [s EXCEPT !.aborted = Append(@, FALSE),
                   !.abortControllerRef = controller,
                   !.status = "GENERATING",
                   !.generatedCode = "",
                   !.currentModel = Null,
                   !.cycleScenes = 0,
                   !.pending = @ \cup {[controller |-> controller, prompt |-> s.ui.prompt]}]

\* handleGenerate up to its await.  `prompt` is the rendered prompt: the
\* handler is a closure of the last render.
handleGenerate(s) ==
    IF Trim(s.ui.prompt) = "" THEN s
    ELSE
      LET controller == Len(s.aborted) + 1
          signalled == IF s.abortControllerRef # Null
                         THEN [s.aborted EXCEPT ![s.abortControllerRef] = TRUE]
                         ELSE s.aborted
      IN [s EXCEPT !.aborted = Append(signalled, FALSE),
                   !.abortControllerRef = controller,
                   !.status = "GENERATING",
                   !.generatedCode = "",
                   !.currentModel = Null,
                   !.cycleScenes = 0,
                   !.pending = @ \cup {[controller |-> controller, prompt |-> s.ui.prompt]}]

\* Mutant of finallyGenerate: the slot is cleared whoever holds it.
finallyGenerate_Unconditional(s, req) == [s EXCEPT !.abortControllerRef = Null]

\* finally { if (abortControllerRef.current === controller) ... = null }
finallyGenerate(s, req) ==
    IF s.abortControllerRef = req.controller
      THEN [s EXCEPT !.abortControllerRef = Null]
      ELSE s

\* Mutant of resolveGenerate: the aborted check after the await is missing.
resolveGenerate_NoAbortCheck(s, req, code) ==
    LET s1 == [s EXCEPT !.pending = @ \ {req}] IN
    finallyGenerate(
      [s1 EXCEPT !.generatedCode = code,
                 !.status = "SUCCESS",
                 !.cycleScenes = 0,
                 !.history = <<[prompt |-> req.prompt, code |-> code]>> \o @],
      req)

\* Mutant of resolveGenerate: the entry takes the prompt field's text at
\* the time of the response.
resolveGenerate_CurrentPrompt(s, req, code) ==
    LET s1 == [s EXCEPT !.pending = @ \ {req}] IN
    IF s1.aborted[req.controller]
      THEN finallyGenerate([s1 EXCEPT !.dropped = TRUE], req)
      ELSE finallyGenerate(
             [s1 EXCEPT !.generatedCode = code,
                        !.status = "SUCCESS",
                        !.cycleScenes = 0,
                        !.history = <<[prompt |-> s.prompt, code |-> code]>> \o @],
             req)

\* handleGenerate after `await generate3DModelCode(prompt)` resolved with code.
resolveGenerate(s, req, code) ==
    LET s1 == [s EXCEPT !.pending = @ \ {req}] IN
    IF s1.aborted[req.controller]
      THEN finallyGenerate([s1 EXCEPT !.dropped = TRUE], req)
      ELSE finallyGenerate(
             [s1 EXCEPT !.generatedCode = code,
                        !.status = "SUCCESS",
                        !.cycleScenes = 0,
                               !.history = <<[prompt |-> req.prompt, code |-> code]>> \o @],
             req)

\* Mutant of rejectGenerate: the catch block does not set the status.
rejectGenerate_KeepStatus(s, req) ==
    LET s1 == [s EXCEPT !.pending = @ \ {req}] IN finallyGenerate(s1, req)

\* handleGenerate after `await generate3DModelCode(prompt)` rejected.
rejectGenerate(s, req) ==
    LET s1 == [s EXCEPT !.pending = @ \ {req}] IN
    IF s1.aborted[req.controller]
      THEN finallyGenerate(s1, req)
      ELSE finallyGenerate([s1 EXCEPT !.status = "ERROR"], req)

\* Mutant of handleStop: the status is left as it is.
handleStop_KeepStatus(s) ==
    IF s.abortControllerRef # Null
      THEN [s EXCEPT !.aborted[s.abortControllerRef] = TRUE,
                     !.abortControllerRef = Null]
      ELSE s

handleStop(s) ==
    IF s.abortControllerRef # Null
      THEN [s EXCEPT !.aborted[s.abortControllerRef] = TRUE,
                     !.abortControllerRef = Null,
                     !.status = "IDLE"]
      ELSE s

\* Mutant of loadHistory: the loaded item is also put in front of the list.
loadHistory_MoveToFront(s, item) ==
    [s EXCEPT !.prompt = item.prompt,
              !.generatedCode = item.code,
              !.cycleScenes = 0,
              !.status = "SUCCESS",
              !.mode = "generator",
              !.history = <<item>> \o @]

loadHistory(s, item) ==
    [s EXCEPT !.prompt = item.prompt,
              !.generatedCode = item.code,
              !.cycleScenes = 0,
              !.status = "SUCCESS",
              !.mode = "generator"]

(* ---------------------------- actions ---------------------------------- *)
\* A step ends in App state s, if the evaluation budget allows it.
StepApp(s) ==
    /\ s.evalCount <= MaxEvals
    /\ Install(s)

\* A step of the generator side: the upload and the export do not move.
Step(s) ==
    /\ StepApp(s)
    /\ UNCHANGED <<uploadVars, exportVars, lastCall>>

\* A click/change event whose handler left state s1: React flushes.
Event(s1) == \E s0 \in {St} : \E s2 \in {flush(s0, s1)} : Step(s2)

\* textarea onChange / a suggestion button: setPrompt(p).
SetPrompt ==
    \E p \in Prompts :
      /\ ui.mode = "generator"
      /\ p # prompt
      /\ \E s1 \in {[St EXCEPT !.prompt = p]} : Event(s1)

\* the code button: setShowCode(!showCode).  showCode only selects CSS
\* classes, so its value is not kept; the state change always renders App.
ToggleShowCode ==
    /\ ui.mode = "generator"
    /\ \E s0 \in {St} : \E s2 \in {render(s0)} : Step(s2)

\* the Generator / Viewer buttons: setMode(m).
SetMode ==
    \E m \in {"generator", "viewer"} :
      /\ m # mode
      /\ \E s1 \in {[St EXCEPT !.mode = m]} : Event(s1)

\* the Generate button, rendered when status is not GENERATING and enabled
\* when the prompt is not blank.
HandleGenerate ==
    /\ ui.mode = "generator"
    /\ ui.status # "GENERATING"
    /\ Trim(ui.prompt) # ""
    /\ Len(aborted) < MaxRequests
    /\ \E s0 \in {St} : \E s1 \in {handleGenerate(s0)} : Event(s1)

\* the Stop button, rendered when status is GENERATING.
HandleStop ==
    /\ ui.mode = "generator"
    /\ ui.status = "GENERATING"
    /\ \E s0 \in {St} : \E s1 \in {handleStop(s0)} : Event(s1)

\* a history button of the rendered list.
LoadHistory ==
    \E i \in DOMAIN ui.history :
      /\ ui.mode = "generator"
      /\ \E s0 \in {St} : \E s1 \in {loadHistory(s0, ui.history[i])} : Event(s1)

\* generate3DModelCode resolves with a program text.
ResolveWith(codes) ==
    \E req \in pending, code \in codes :
      \E s0 \in {St} : \E s1 \in {resolveGenerate(s0, req, code)} : Step(s1)

Resolve == ResolveWith(ResponseCodes)

\* generate3DModelCode rejects (missing API key, transport failure).
RejectOf(req) == \E s0 \in {St} : \E s1 \in {rejectGenerate(s0, req)} : Step(s1)

Reject == \E req \in pending : RejectOf(req)

\* the wireframe button of ScenePreview: ScenePreview renders again with the
\* props of the last App render; the ModelObject effect runs for the group.
ToggleWireframe ==
    /\ previewMounted
    /\ \E s1 \in {[St EXCEPT !.wireframe = ~@,
                                !.heap = IF generatedObjectMounted /\ group # Null
                                           THEN applyWireframe(heap, group, ~wireframe)
                                           ELSE @]} : Step(s1)

\* React's scheduler renders state set after an await or inside an effect.
ScheduledRender ==
    /\ Snapshot(St) # ui
    /\ \E s0 \in {St} : \E s2 \in {render(s0)} : Step(s2)

Next ==
    \/ SetPrompt
    \/ ToggleShowCode
    \/ SetMode
    \/ HandleGenerate
    \/ HandleStop
    \/ LoadHistory
    \/ Resolve
    \/ Reject
    \/ ToggleWireframe
    \/ ScheduledRender

Spec == Init /\ [][Next]_vars

(* ---------------------------- wireframe -------------------------------- *)
\* The generator with the responses of WireCodes, every request awaited to
\* its end: the scenes the wireframe toggle meets.
ResolveWire == ResolveWith(WireCodes)

NextWire ==
    \/ SetPrompt
    \/ SetMode
    \/ ToggleShowCode
    \/ HandleGenerate
    \/ ResolveWire
    \/ LoadHistory
    \/ ToggleWireframe
    \/ ScheduledRender

SpecWire == Init /\ [][NextWire]_vars

(* ---------------------------- export file name ------------------------ *)
\* A text is a sequence of UTF-16 code units.  The units of the prompt
\* texts: a lower-case letter, an upper-case letter, a digit, a blank, an
\* underscore, a unit outside ASCII.
Units == {"a", "B", "7", " ", "_", "é"}

\* /[a-z0-9]/i on one unit
IsAlphanumeric(c) == c \in {"a", "B", "7"}

\* String.prototype.toLowerCase on one unit
ToLowerCase(c) == IF c = "B" THEN "b" ELSE c

\* substring(0, 20)
FilenameLimit == 20

\* The code units of a prompt of the application model.
Chars(p) == IF p = "" THEN << >> ELSE <<p>>

\* Mutant of exportFilename: the regular expression lacks the i flag.
exportFilename_CaseSensitive(p) ==
    LET replaced == [i \in 1..Len(p) |-> IF p[i] \in {"a", "7"} THEN p[i] ELSE "_"]
        lowered == [i \in 1..Len(p) |-> ToLowerCase(replaced[i])]
        cut == SubSeq(lowered, 1, IF Len(p) < FilenameLimit THEN Len(p) ELSE FilenameLimit)
    IN IF cut = << >> THEN <<"m", "o", "d", "e", "l">> ELSE cut

\* prompt.replace(/[^a-z0-9]/gi, '_').toLowerCase().substring(0, 20) || 'model'
exportFilename(p) ==
    LET replaced == [i \in 1..Len(p) |-> IF IsAlphanumeric(p[i]) THEN p[i] ELSE "_"]
        lowered == [i \in 1..Len(p) |-> ToLowerCase(replaced[i])]
        cut == SubSeq(lowered, 1, IF Len(p) < FilenameLimit THEN Len(p) ELSE FilenameLimit)
    IN IF cut = << >> THEN <<"m", "o", "d", "e", "l">> ELSE cut

\* All texts over U of length at most n.
RECURSIVE Texts(_, _)
Texts(U, n) ==
    IF n = 0 THEN {<< >>}
    ELSE LET shorter == Texts(U, n - 1)
         IN shorter \cup {Append(t, c) : t \in shorter, c \in U}

\* The prompt texts the file name is computed for: any short text followed
\* by a run of one unit, long enough to pass the limit.
PromptTexts ==
    {t \o [i \in 1..k |-> c] : t \in Texts(Units, MaxPrefix), c \in Units, k \in 0..MaxPad}

\* handleDownload's file name computation applied to a prompt text.
ComputeFilename ==
    /\ lastCall = NoCall
    /\ \E p \in PromptTexts :
         lastCall' = [fn |-> "exportFilename", absent |-> FALSE, input |-> p,
                      output |-> exportFilename(p)]
    /\ UNCHANGED <<appVars, uploadVars, exportVars>>

NextFilename == ComputeFilename

SpecFilename == Init /\ [][NextFilename]_vars

(* ---------------------------- export ----------------------------------- *)
\* The export state as a record.
Ex ==
    [pending |-> exportsPending, exports |-> exports, downloads |-> downloads,
     console |-> console]

InstallExport(x) ==
    /\ exportsPending' = x.pending
    /\ exports' = x.exports
    /\ downloads' = x.downloads
    /\ console' = x.console

\* What GLTFExporter.parse hands to its callbacks: an ArrayBuffer or a JSON
\* object to the first one, an error to the second.
ParseOutcomes == {"ArrayBuffer", "Json", "Error"}

\* save(blob, filename): a link with the blob's object URL and the download
\* name is added to the document, clicked and removed.
save(x, type, content, filename) ==
    [x EXCEPT !.downloads = Append(@, [filename |-> filename, type |-> type,
                                        content |-> content])]

saveString(x, text, filename) == save(x, "text/plain", text, filename)

saveArrayBuffer(x, buffer, filename) == save(x, "application/octet-stream", buffer, filename)

\* Mutant of exportCallback: the JSON fallback keeps the binary file name
\* and content type.
exportCallback_FallbackAsGlb(x, filename, outcome) ==
    CASE outcome = "ArrayBuffer" -> saveArrayBuffer(x, "ArrayBuffer", filename \o <<".glb">>)
      [] outcome = "Json" ->
           saveArrayBuffer([x EXCEPT !.console = Append(@, "warn")], "JSON",
                           filename \o <<".glb">>)
      [] OTHER -> [x EXCEPT !.console = Append(@, "error")]

\* Mutant of exportCallback: the error callback saves the (empty) output.
exportCallback_SaveOnError(x, filename, outcome) ==
    CASE outcome = "ArrayBuffer" -> saveArrayBuffer(x, "ArrayBuffer", filename \o <<".glb">>)
      [] outcome = "Json" ->
           saveString([x EXCEPT !.console = Append(@, "warn")], "JSON",
                      filename \o <<".gltf">>)
      [] OTHER ->
           saveString([x EXCEPT !.console = Append(@, "error")], "JSON",
                      filename \o <<".gltf">>)

\* The two callbacks exportToBinaryGLB passes to exporter.parse.
exportCallback(x, filename, outcome) ==
    CASE outcome = "ArrayBuffer" -> saveArrayBuffer(x, "ArrayBuffer", filename \o <<".glb">>)
      [] outcome = "Json" ->
           saveString([x EXCEPT !.console = Append(@, "warn")], "JSON",
                      filename \o <<".gltf">>)
      [] OTHER -> [x EXCEPT !.console = Append(@, "error")]

\* exportToBinaryGLB(object, filename): exporter.parse is started; its
\* callback runs later.
exportToBinaryGLB(x, object, filename) ==
    [x EXCEPT !.pending = Append(@, [object |-> object, filename |-> filename])]

\* handleDownload, a closure of the last render.
handleDownload(s, x) ==
    IF s.ui.currentModel # Null
      THEN exportToBinaryGLB(x, s.ui.currentModel, exportFilename(Chars(s.ui.prompt)))
      ELSE x

\* the Download button, rendered while currentModel is not null.  The
\* handler sets no state: nothing is rendered.
HandleDownload ==
    /\ ui.mode = "generator"
    /\ ui.currentModel # Null
    /\ Len(exportsPending) + Len(exports) < MaxExports
    /\ \E s0 \in {St} : \E x0 \in {Ex} : \E x1 \in {handleDownload(s0, x0)} :
         InstallExport(x1)
    /\ UNCHANGED <<appVars, uploadVars, lastCall>>

\* exporter.parse of call k finishes with some outcome and calls back.
ExportDone ==
    \E k \in DOMAIN exportsPending, outcome \in ParseOutcomes :
      LET call == exportsPending[k]
          x0 == [Ex EXCEPT !.pending = SubSeq(@, 1, k - 1) \o SubSeq(@, k + 1, Len(@)),
                           !.exports = Append(@, [object |-> call.object,
                                                  filename |-> call.filename,
                                                  outcome |-> outcome])]
      IN /\ InstallExport(exportCallback(x0, call.filename, outcome))
         /\ UNCHANGED <<appVars, uploadVars, lastCall>>

\* The generator as far as the export needs it, with downloads.
NextExport ==
    \/ SetPrompt
    \/ HandleGenerate
    \/ Resolve
    \/ ScheduledRender
    \/ HandleDownload
    \/ ExportDone

SpecExport == Init /\ [][NextExport]_vars

(* ---------------------------- generate3DModelCode: cleanup ------------- *)
\* A response text is a sequence of units: a backtick, the letters j and s,
\* "avascript" (those nine letters in a row), a blank, the seven characters
\* "(THREE)" in a row, any other character.
Tick == "backtick"
Fence == <<Tick, Tick, Tick>>
FenceJavascript == <<Tick, Tick, Tick, "j", "avascript">>
FenceJs == <<Tick, Tick, Tick, "j", "s">>
Marker == "(THREE)"

\* text.replace(/pattern/g, ""): the occurrences of pattern found scanning
\* from the left, each search resuming after the previous match, are removed.
RECURSIVE ReplaceAll(_, _)
ReplaceAll(text, pattern) ==
    IF Len(text) < Len(pattern) THEN text
    ELSE IF SubSeq(text, 1, Len(pattern)) = pattern
      THEN ReplaceAll(SubSeq(text, Len(pattern) + 1, Len(text)), pattern)
      ELSE <<Head(text)>> \o ReplaceAll(Tail(text), pattern)

\* text.replace(/pattern/, ""): the first occurrence only.
RECURSIVE ReplaceFirst(_, _)
ReplaceFirst(text, pattern) ==
    IF Len(text) < Len(pattern) THEN text
    ELSE IF SubSeq(text, 1, Len(pattern)) = pattern
      THEN SubSeq(text, Len(pattern) + 1, Len(text))
      ELSE <<Head(text)>> \o ReplaceFirst(Tail(text), pattern)

\* String.prototype.trim on a text
RECURSIVE TrimStart(_)
TrimStart(text) ==
    IF text # << >> /\ Head(text) = " " THEN TrimStart(Tail(text)) ELSE text

RECURSIVE TrimEnd(_)
TrimEnd(text) ==
    IF text # << >> /\ text[Len(text)] = " "
      THEN TrimEnd(SubSeq(text, 1, Len(text) - 1))
      ELSE text

TrimText(text) == TrimEnd(TrimStart(text))

\* text.indexOf('(THREE)'), counted from 1; 0 if not found.
IndexOfMarker(text) ==
    IF \E i \in DOMAIN text : text[i] = Marker
      THEN CHOOSE i \in DOMAIN text :
             text[i] = Marker /\ \A j \in 1..(i - 1) : text[j] # Marker
      ELSE 0

\* Mutant of cleanResponse: the last replace lacks the g flag.
cleanResponse_FirstFenceOnly(absent, text) ==
    IF absent \/ text = << >> THEN << >>
    ELSE LET stripped == TrimText(ReplaceFirst(ReplaceAll(ReplaceAll(text, FenceJavascript),
                                                          FenceJs), Fence))
             funcStart == IndexOfMarker(stripped)
         IN IF funcStart > 0 THEN SubSeq(stripped, funcStart, Len(stripped)) ELSE stripped

\* generate3DModelCode from `let code = response.text` to `return code || ""`;
\* absent: response.text is undefined.
cleanResponse(absent, text) ==
    IF absent \/ text = << >> THEN << >>
    ELSE LET stripped == TrimText(ReplaceAll(ReplaceAll(ReplaceAll(text, FenceJavascript),
                                                        FenceJs), Fence))
             funcStart == IndexOfMarker(stripped)
         IN IF funcStart > 0 THEN SubSeq(stripped, funcStart, Len(stripped)) ELSE stripped

\* The pieces response texts are put together from.
Chunks ==
    {<<Tick>>, Fence, FenceJs, FenceJavascript, <<Marker>>, <<" ">>, <<"x">>, <<"j">>, <<"s">>}

\* All texts put together from at most n pieces.
RECURSIVE ChunkTexts(_)
ChunkTexts(n) ==
    IF n = 0 THEN {<< >>}
    ELSE LET shorter == ChunkTexts(n - 1)
         IN shorter \cup {t \o c : t \in shorter, c \in Chunks}

\* generate3DModelCode receives a response, with or without a text.
CleanResponse ==
    /\ lastCall = NoCall
    /\ \/ \E t \in ChunkTexts(MaxChunks) :
            lastCall' = [fn |-> "generate3DModelCode", absent |-> FALSE, input |-> t,
                         output |-> cleanResponse(FALSE, t)]
       \/ lastCall' = [fn |-> "generate3DModelCode", absent |-> TRUE, input |-> << >>,
                       output |-> cleanResponse(TRUE, << >>)]
    /\ UNCHANGED <<appVars, uploadVars, exportVars>>

NextCleanup == CleanResponse

SpecCleanup == Init /\ [][NextCleanup]_vars

(* ---------------------------- viewer: uploaded file -------------------- *)
\* The files the user can pick; NoFile is a change event without a file
\* (e.target.files is empty).
Files == {"chair.glb", "table.glb"}
NoFile == ""

\* The upload state as a record.
Up ==
    [url |-> uploadedFileUrl, name |-> uploadedFileName, urls |-> objectUrls,
     log |-> objectUrlLog]

InstallUpload(u) ==
    /\ uploadedFileUrl' = u.url
    /\ uploadedFileName' = u.name
    /\ objectUrls' = u.urls
    /\ objectUrlLog' = u.log

\* URL.createObjectURL(file): a new URL, never handed out before.
createObjectURL(u, file) ==
    [u EXCEPT !.urls = Append(@, [name |-> file, revoked |-> 0]),
              !.log = Append(@, [op |-> "create", url |-> Len(u.urls) + 1])]

\* URL.revokeObjectURL(url)
revokeObjectURL(u, url) ==
    [u EXCEPT !.urls[url].revoked = @ + 1,
              !.log = Append(@, [op |-> "revoke", url |-> url])]

\* setUploadedFileUrl(url); setUploadedFileName(name)
setUploadedFile(u, url, name) ==
    [u EXCEPT !.url = url, !.name = name, !.log = Append(@, [op |-> "set", url |-> url])]

\* Mutant of handleFileUpload: the previous URL is not revoked by the handler.
handleFileUpload_NoRevoke(u, file) ==
    IF file = NoFile THEN u
    ELSE LET u2 == createObjectURL(u, file)
         IN setUploadedFile(u2, Len(u2.urls), file)

handleFileUpload(u, file) ==
    IF file = NoFile THEN u
    ELSE LET u1 == IF u.url # Null THEN revokeObjectURL(u, u.url) ELSE u
             u2 == createObjectURL(u1, file)
         IN setUploadedFile(u2, Len(u2.urls), file)

clearUploadedFile(u) ==
    LET u1 == IF u.url # Null THEN revokeObjectURL(u, u.url) ELSE u
    IN setUploadedFile(u1, Null, "")

\* The useEffect with dependency [uploadedFileUrl]: when a render shows
\* another URL than the previous one (prev), the cleanup of the previous
\* effect runs and revokes prev, if there was one.
uploadedFileUrlEffect(prev, u) ==
    IF u.url # prev /\ prev # Null THEN revokeObjectURL(u, prev) ELSE u

\* A change/click event of the viewer sidebar whose handler left upload
\* state u1: React renders App and runs the effect cleanup.
UploadEvent(u1) ==
    \E u2 \in {uploadedFileUrlEffect(uploadedFileUrl, u1)} :
      /\ InstallUpload(u2)
      /\ IF u1.url # uploadedFileUrl \/ u1.name # uploadedFileName
           THEN \E s0 \in {St} : \E s2 \in {render(s0)} : StepApp(s2)
           ELSE UNCHANGED appVars
      /\ UNCHANGED <<exportVars, lastCall>>

\* the file input of the viewer sidebar.
HandleFileUpload ==
    \E file \in Files \cup {NoFile} :
      /\ ui.mode = "viewer"
      /\ Len(objectUrls) < MaxUploads
      /\ \E u0 \in {Up} : \E u1 \in {handleFileUpload(u0, file)} : UploadEvent(u1)

\* the remove button, rendered while uploadedFileName is not empty.
ClearUploadedFile ==
    /\ ui.mode = "viewer"
    /\ uploadedFileName # ""
    /\ \E u0 \in {Up} : \E u1 \in {clearUploadedFile(u0)} : UploadEvent(u1)

NextUpload ==
    \/ SetMode
    \/ HandleFileUpload
    \/ ClearUploadedFile

SpecUpload == Init /\ [][NextUpload]_vars

(* ---------------------------- executeGeneratedCode alone --------------- *)
\* executeGeneratedCode applied to every program text of CodeTable, one call
\* after another on a growing heap; the application does not move.
Execute ==
    \E code \in AllCodes :
      LET r == executeGeneratedCode(code, heap) IN
      /\ evalCount < MaxExecCalls
      /\ heap' = r.heap
      /\ lastExec' = [code |-> code, result |-> r.result, raw |-> r.raw,
                      outcome |-> r.outcome, invoked |-> r.invoked]
      /\ evalCount' = evalCount + 1
      /\ UNCHANGED <<mode, prompt, status, generatedCode, currentModel, history,
                     abortControllerRef, aborted, pending, ui, previewMounted, wireframe,
                     generatedObjectMounted, group, cleanup, published, cycleScenes,
                     dropped, uploadVars, exportVars, lastCall>>

NextExec == Execute

SpecExec == Init /\ [][NextExec]_vars

(* ---------------------------- properties ------------------------------- *)
\* The meshes traverse() visits below root.
MeshesOf(h, root) == {i \in Traverse(h, root) : h[i].kind = "Mesh"}

\* The dispose() counts of a mesh: its geometry and each of its materials.
ReleaseCounts(h, i) ==
    {h[i].geometry} \cup {h[i].material[k].disposed : k \in DOMAIN h[i].material}

\* Every leaf resource below root has been disposed / none has.
FullyDisposed(h, root) ==
    \A i \in MeshesOf(h, root) : \A n \in ReleaseCounts(h, i) : n >= 1
Undisposed(h, root) ==
    \A i \in MeshesOf(h, root) : \A n \in ReleaseCounts(h, i) : n = 0

\* Requests in flight whose controller has not been aborted.
LiveRequests == {req \in pending : ~aborted[req.controller]}

\* C1: when a request whose controller is aborted resolves, the step writes
\* no generatedCode, changes no status, adds no history entry, publishes and
\* materializes nothing.
C1_AbortedResponseDiscarded ==
    [][\A req \in pending :
         (aborted[req.controller] /\ req \notin pending') =>
            /\ generatedCode' = generatedCode
            /\ status' = status
            /\ history' = history
            /\ currentModel' = currentModel
            /\ published' = published
            /\ heap' = heap
            /\ lastExec' = lastExec]_vars

\* C1 witness: the response of an aborted request arrived and was dropped
\* while the request that superseded it is still awaited.
C1_Witness ==
    /\ dropped
    /\ abortControllerRef # Null
    /\ status = "GENERATING"
    /\ generatedCode = ""

\* A step in which handleGenerate issued a request: a controller was created.
GenerationStarted == Len(aborted') > Len(aborted)

\* A step in which onLoaded was called with a new group.
ScenePublished == Len(published') > Len(published)

C3_ThrowingProgramSetsError ==
    (/\ lastExec.outcome = "Threw"
     /\ lastExec.code = ui.generatedCode
     /\ ui.generatedCode = generatedCode
     /\ ui.status = status
     /\ generatedObjectMounted)
    => /\ status = "ERROR"
       /\ (currentModel # Null => Undisposed(heap, currentModel))

\* C4: every mesh of every group that was ever published has its geometry
\* and each of its materials disposed at most once, and exactly once as soon
\* as the group is neither App's currentModel nor GeneratedObject's group.
C4_DisposedExactlyOnce ==
    \A k \in DOMAIN published :
      \A i \in MeshesOf(heap, published[k]) :
        \A n \in ReleaseCounts(heap, i) :
          /\ n <= 1
          /\ (published[k] \notin {currentModel, group}) => n = 1

\* C4 witness: two groups were published and superseded, the mesh with a
\* material array included, and each resource was disposed once.
C4_Witness ==
    /\ Len(published) >= 2
    /\ \A k \in DOMAIN published :
         /\ published[k] \notin {currentModel, group}
         /\ \A i \in MeshesOf(heap, published[k]) :
              \A n \in ReleaseCounts(heap, i) : n = 1
    /\ \E k \in DOMAIN published :
         \E i \in MeshesOf(heap, published[k]) : heap[i].materialIsArray

\* C5 as the spec states it: between two assignments of generatedCode at
\* most one group is materialized and passed to onModelReady.
C5_OneScenePerCycle == cycleScenes <= 1

\* C6: when a group is published, every group published before it (the one
\* current until then included) has all its leaf resources disposed; and no
\* step both disposes and sets the wireframe flag of the same mesh.
C6_RetireBeforePublish ==
    [][/\ ScenePublished =>
             /\ \A k \in DOMAIN published : FullyDisposed(heap', published[k])
             /\ \A g \in {currentModel, group, cleanup} \ {Null} : FullyDisposed(heap', g)
       /\ \A i \in DOMAIN heap :
             heap'[i].geometry # heap[i].geometry =>
               \A k \in DOMAIN heap[i].material :
                 /\ heap'[i].material[k].wireframe = heap[i].material[k].wireframe
                 /\ heap'[i].material[k].needsUpdate = heap[i].material[k].needsUpdate]_vars

\* C6 witness: a second group has just been published and is attached, the
\* first one is disposed.
C6_Witness ==
    /\ Len(published) = 2
    /\ group = published[2]
    /\ cleanup = published[2]
    /\ Undisposed(heap, published[2])
    /\ MeshesOf(heap, published[1]) # {}
    /\ FullyDisposed(heap, published[1])

\* C7: at most one request in flight has a controller that is not aborted,
\* and it is the one abortControllerRef holds.
C7_AtMostOneLiveRequest ==
    /\ Cardinality(LiveRequests) <= 1
    /\ \A req \in LiveRequests : abortControllerRef = req.controller

\* C7 witness: two requests are in flight, the older one aborted by the
\* handleGenerate that issued the newer one.
C7_Witness ==
    \E r1 \in pending, r2 \in pending :
      /\ r1.controller < r2.controller
      /\ aborted[r1.controller]
      /\ ~aborted[r2.controller]
      /\ abortControllerRef = r2.controller
      /\ status = "GENERATING"

\* C8: a handleStop step with an active controller aborts it, clears the
\* slot and sets status IDLE while the request stays in flight; a
\* handleStop step with no active controller changes nothing.
C8_Stop ==
    [][HandleStop =>
         IF abortControllerRef # Null
           THEN /\ aborted'[abortControllerRef]
                /\ abortControllerRef' = Null
                /\ status' = "IDLE"
                /\ pending' = pending
                /\ \E req \in pending : req.controller = abortControllerRef
           ELSE UNCHANGED vars]_vars

\* C8 witness: stop has acted while the request is still awaited.
C8_Witness ==
    /\ status = "IDLE"
    /\ ui.status = "IDLE"
    /\ abortControllerRef = Null
    /\ \E req \in pending : aborted[req.controller]

\* The Stop button is still rendered although no request is active any more
\* (the response arrived, the render is still scheduled).
StopWithoutRequest ==
    /\ ui.mode = "generator"
    /\ ui.status = "GENERATING"
    /\ abortControllerRef = Null


\* The last call ran a program whose invocation returned normally.
Returned(shapes) ==
    /\ lastExec.outcome # "None"
    /\ CodeTable[lastExec.code].compiles
    /\ CodeTable[lastExec.code].isFunction
    /\ ~CodeTable[lastExec.code].throws
    /\ CodeTable[lastExec.code].returns \in shapes

\* C9: for a program that returns a THREE.Group, executeGeneratedCode
\* returns that very object, creates no wrapper and leaves the heap the
\* invocation built (the group's children included) as it is.
C9_GroupReturnedUnchanged ==
    Returned({"Group2", "GroupEmpty", "GroupWire"}) =>
       /\ lastExec.raw # Null
       /\ IsGroup(lastExec.invoked, lastExec.raw)
       /\ lastExec.result = lastExec.raw
       /\ Len(heap) = Len(lastExec.invoked)
       /\ heap[lastExec.result].children = lastExec.invoked[lastExec.raw].children
       /\ heap = lastExec.invoked

\* C9 witness: a group with two meshes came back as itself.
C9_Witness ==
    /\ lastExec.code = "grp"
    /\ lastExec.outcome = "Group"
    /\ lastExec.result # Null
    /\ Len(heap[lastExec.result].children) = 2

\* C10: for a program that returns a mesh or another Object3D that is not a
\* group, executeGeneratedCode returns a group that did not exist after the
\* invocation, whose only child is the returned node (and that node, with
\* its own children, is otherwise untouched).
C10_LeafWrapped ==
    Returned({"Mesh", "Line", "ObjectWithMesh"}) =>
       /\ lastExec.raw # Null
       /\ lastExec.result # Null
       /\ lastExec.result # lastExec.raw
       /\ lastExec.result \notin DOMAIN lastExec.invoked
       /\ lastExec.result \in DOMAIN heap
       /\ IsGroup(heap, lastExec.result)
       /\ heap[lastExec.result].children = <<lastExec.raw>>
       /\ heap[lastExec.raw].parent = lastExec.result
       /\ heap[lastExec.raw].kind = lastExec.invoked[lastExec.raw].kind
       /\ heap[lastExec.raw].children = lastExec.invoked[lastExec.raw].children

\* C10 witness: a node that is neither a mesh nor a group, with a mesh below
\* it, was wrapped after an earlier call had wrapped a bare mesh.
C10_Witness ==
    /\ lastExec.code = "nest"
    /\ lastExec.outcome = "Wrapped"
    /\ heap[lastExec.result].children = <<lastExec.raw>>
    /\ \E g \in DOMAIN lastExec.invoked :
         /\ IsGroup(heap, g)
         /\ Len(heap[g].children) = 1
         /\ IsMesh(heap, heap[g].children[1])

\* The object trees a program can return that are THREE.Object3D instances.
ObjectShapes == {"Group2", "GroupEmpty", "GroupWire", "Mesh", "Line", "ObjectWithMesh"}

\* The program text fails at the trust boundary: it does not compile, does
\* not evaluate to a function, throws when invoked, or returns a value that
\* is no Object3D.
Fails(code) ==
    \/ ~CodeTable[code].compiles
    \/ ~CodeTable[code].isFunction
    \/ CodeTable[code].throws
    \/ CodeTable[code].returns \notin ObjectShapes

\* C11: every executeGeneratedCode call returns (through one of the paths of
\* the function, the catch included); it returns null exactly for a failing
\* program text, and then it has created no wrapper group: the heap is the
\* one the invocation (if any) left.
C11_FailureContained ==
    lastExec.outcome # "None" =>
       /\ lastExec.outcome \in {"SyntaxError", "NotAFunction", "Threw", "Invalid",
                                 "Group", "Wrapped"}
       /\ (lastExec.result = Null) <=> Fails(lastExec.code)
       /\ (lastExec.result = Null) <=>
             (lastExec.outcome \in {"SyntaxError", "NotAFunction", "Threw", "Invalid"})
       /\ Fails(lastExec.code) => heap = lastExec.invoked

\* C11 witness: after a call that produced a group, a call on a program
\* returning a number returned null and left the heap alone.
C11_Witness ==
    /\ lastExec.code = "num"
    /\ lastExec.outcome = "Invalid"
    /\ lastExec.result = Null
    /\ Len(heap) > 0
    /\ heap = lastExec.invoked

\* The URL that was active (the last one set) before position k of the log.
ActiveBefore(k) ==
    LET sets == {j \in 1..(k - 1) : objectUrlLog[j].op = "set"}
    IN IF sets = {} THEN Null
       ELSE objectUrlLog[CHOOSE j \in sets : \A i \in sets : i <= j].url

\* C12: the active URL is not revoked and every other URL ever created is
\* (so at most one is live); whenever a URL or none is made active, the URL
\* active until then has been revoked before, by that handler; no URL is
\* active exactly when no file name is shown.
C12_UploadSupersession ==
    /\ uploadedFileUrl # Null =>
          /\ uploadedFileUrl \in DOMAIN objectUrls
          /\ objectUrls[uploadedFileUrl].revoked = 0
          /\ objectUrls[uploadedFileUrl].name = uploadedFileName
    /\ \A u \in DOMAIN objectUrls : u # uploadedFileUrl => objectUrls[u].revoked >= 1
    /\ (uploadedFileUrl = Null) <=> (uploadedFileName = "")
    /\ \A k \in DOMAIN objectUrlLog :
          (objectUrlLog[k].op = "set" /\ ActiveBefore(k) # Null) =>
             /\ ActiveBefore(k) # objectUrlLog[k].url
             /\ \E i \in 1..(k - 1) :
                   objectUrlLog[i] = [op |-> "revoke", url |-> ActiveBefore(k)]

\* C12 witness: "chair.glb" was uploaded, then "table.glb" without clearing
\* in between; the first URL is revoked and the second is active.
C12_Witness ==
    /\ Len(objectUrls) = 2
    /\ objectUrls[1].name = "chair.glb"
    /\ objectUrls[2].name = "table.glb"
    /\ uploadedFileUrl = 2
    /\ objectUrls[1].revoked >= 1
    /\ \A k \in DOMAIN objectUrlLog : objectUrlLog[k] # [op |-> "set", url |-> Null]

\* C13: history changes only in a step in which the response of a request
\* that is not aborted arrives successfully, and then by one entry put in
\* front, holding that request's prompt and the received text, the entries
\* already present following in their order; a step that ends no request
\* (handleStop, loadHistory among them), the end of an aborted request and
\* a failed request leave history as it is.
C13_HistoryAppendOnly ==
    [][/\ history' # history =>
             \E req \in pending :
               /\ ~aborted[req.controller]
               /\ pending' = pending \ {req}
               /\ status' = "SUCCESS"
               /\ history' = <<[prompt |-> req.prompt, code |-> generatedCode']>> \o history
       /\ pending' = pending => history' = history
       /\ (\E req \in pending \ pending' : aborted[req.controller]) => history' = history
       /\ (pending' # pending /\ status' = "ERROR") => history' = history]_vars

\* C13 witness: two entries with different texts, the newer one in front,
\* after a response for an aborted request had been dropped and an item had
\* been loaded from the list.
C13_Witness ==
    /\ Len(history) = 2
    /\ history[1].code = "grp"
    /\ history[2].code = "throw"
    /\ dropped
    /\ generatedCode = "throw"
    /\ status = "SUCCESS"

\* C14: when the request of a controller that is not aborted fails, status
\* becomes ERROR, generatedCode, currentModel and history stay as they are,
\* the request is gone, the controller slot is empty and no request was
\* issued; requests are issued by handleGenerate only; and with ERROR shown
\* and a prompt entered the Generate button works.
C14_TransportFailure ==
    /\ [][\A req \in pending :
            (~aborted[req.controller] /\ RejectOf(req)) =>
               /\ status' = "ERROR"
               /\ generatedCode' = generatedCode
               /\ currentModel' = currentModel
               /\ history' = history
               /\ pending' = pending \ {req}
               /\ aborted' = aborted
               /\ abortControllerRef' = Null]_vars
    /\ [][GenerationStarted => HandleGenerate]_vars
    /\ [](( /\ status = "ERROR"
            /\ ui.status = "ERROR"
            /\ ui.mode = "generator"
            /\ Trim(ui.prompt) # ""
            /\ Len(aborted) < MaxRequests) => ENABLED HandleGenerate)

\* C14 witness: a request failed, ERROR was shown, and the user has
\* submitted again.
C14_Witness ==
    /\ Len(aborted) = 2
    /\ ~aborted[1]
    /\ history = << >>
    /\ status = "GENERATING"
    /\ abortControllerRef = 2
    /\ \A req \in pending : req.controller = 2

\* The group ModelObject renders, if any.
Attached == IF previewMounted /\ generatedObjectMounted THEN group ELSE Null

\* The wireframe flags of the materials of the meshes below root.
WireframeFlags(h, root) ==
    [i \in MeshesOf(h, root) |-> [k \in DOMAIN h[i].material |-> h[i].material[k].wireframe]]

\* What a wireframe change may not touch: everything but the wireframe and
\* needsUpdate fields of the materials.
Buffers(h) ==
    [i \in DOMAIN h |->
       [kind |-> h[i].kind, children |-> h[i].children, parent |-> h[i].parent,
        geometry |-> h[i].geometry, materialIsArray |-> h[i].materialIsArray,
        disposed |-> [k \in DOMAIN h[i].material |-> h[i].material[k].disposed]]]

\* C15: every material of every mesh of the attached group has its
\* wireframe flag equal to the toggle and is marked as needing an update.
C15_WireframeCoverage ==
    Attached # Null =>
       \A i \in MeshesOf(heap, Attached) :
         \A k \in DOMAIN heap[i].material :
           /\ heap[i].material[k].wireframe = wireframe
           /\ heap[i].material[k].needsUpdate

\* C15 witness: with the toggle on, a wrapped bare mesh is attached after a
\* group with a material-array mesh had been attached.
C15_Witness ==
    /\ wireframe
    /\ Attached # Null
    /\ lastExec.outcome = "Wrapped"
    /\ Attached = lastExec.result
    /\ IsMesh(heap, lastExec.raw)
    /\ heap[lastExec.raw].material[1].wireframe
    /\ \E k \in DOMAIN published :
         \E i \in MeshesOf(heap, published[k]) : heap[i].materialIsArray

\* C16: on the attached group, with the toggle off, applying the flag true
\* and then false gives every material the flag value it has now; applying
\* a flag twice gives what applying it once gives; applying a flag changes
\* no geometry, no dispose count and no tree; and a click on the wireframe
\* button is one such application with the negated toggle.
C16_WireframeRoundTrip ==
    /\ [](Attached # Null =>
            /\ ~wireframe =>
                  WireframeFlags(applyWireframe(applyWireframe(heap, Attached, TRUE),
                                                Attached, FALSE), Attached)
                    = WireframeFlags(heap, Attached)
            /\ \A f \in BOOLEAN :
                  /\ applyWireframe(applyWireframe(heap, Attached, f), Attached, f)
                       = applyWireframe(heap, Attached, f)
                  /\ Buffers(applyWireframe(heap, Attached, f)) = Buffers(heap))
    /\ [][ToggleWireframe =>
            /\ wireframe' = ~wireframe
            /\ Buffers(heap') = Buffers(heap)
            /\ Attached # Null => heap' = applyWireframe(heap, Attached, ~wireframe)
            /\ Attached = Null => heap' = heap]_vars

\* C16 witness: the toggle has been on (a group attached then still carries
\* the flag) and is off now, and the group attached now, whose mesh the
\* program had created with wireframe on, has the flag off.
C16_Witness ==
    /\ ~wireframe
    /\ Attached # Null
    /\ lastExec.code = "wire"
    /\ Attached = lastExec.result
    /\ \A i \in MeshesOf(heap, Attached) :
         \A k \in DOMAIN heap[i].material :
           ~heap[i].material[k].wireframe /\ heap[i].material[k].needsUpdate
    /\ \E k \in DOMAIN published :
         \E i \in MeshesOf(heap, published[k]) :
           heap[i].materialIsArray /\ heap[i].material[2].wireframe

\* The units a file name may consist of: [a-z0-9_].
FilenameUnits == {"a", "b", "7", "_", "m", "o", "d", "e", "l"}

\* C19: the file name computed for a prompt is, unit by unit, the prompt's
\* first 20 units with every unit that is not alphanumeric replaced by an
\* underscore and the others lower-cased; it is "model" when that is empty;
\* it consists of [a-z0-9_] only and has 1 to 20 units.
C19_ExportFilename ==
    lastCall.fn = "exportFilename" =>
       LET p == lastCall.input
           name == lastCall.output
       IN /\ p # << >> =>
                /\ Len(name) = (IF Len(p) < 20 THEN Len(p) ELSE 20)
                /\ \A i \in 1..Len(name) :
                      name[i] = CASE p[i] \in {"a", "7"} -> p[i]
                                  [] p[i] = "B" -> "b"
                                  [] OTHER -> "_"
          /\ p = << >> => name = <<"m", "o", "d", "e", "l">>
          /\ \A i \in 1..Len(name) : name[i] \in FilenameUnits
          /\ Len(name) >= 1
          /\ Len(name) <= 20

\* C19 witness: a prompt of more than 20 units with an upper-case letter, a
\* blank and a unit outside ASCII was cut to 20 units.
C19_Witness ==
    /\ lastCall.fn = "exportFilename"
    /\ Len(lastCall.input) > 20
    /\ SubSeq(lastCall.input, 1, 3) = <<"B", " ", "é">>
    /\ Len(lastCall.output) = 20
    /\ SubSeq(lastCall.output, 1, 3) = <<"b", "_", "_">>

\* A step in which a parse call finished.
ExportFinished == Len(exports') > Len(exports)

\* C17: a parse call that finishes with an ArrayBuffer saves exactly one
\* file, named name.glb, of type application/octet-stream, and logs
\* nothing; one that finishes with a JSON object saves exactly one file,
\* named name.gltf, holding the JSON text, and logs one warning; files are
\* saved in no other step.
C17_ExportPaths ==
    [][/\ ExportFinished =>
             LET e == exports'[Len(exports')] IN
             /\ Len(exports') = Len(exports) + 1
             /\ e.outcome = "ArrayBuffer" =>
                   /\ downloads' = Append(downloads,
                                          [filename |-> e.filename \o <<".glb">>,
                                           type |-> "application/octet-stream",
                                           content |-> "ArrayBuffer"])
                   /\ console' = console
             /\ e.outcome = "Json" =>
                   /\ downloads' = Append(downloads,
                                          [filename |-> e.filename \o <<".gltf">>,
                                           type |-> "text/plain",
                                           content |-> "JSON"])
                   /\ console' = Append(console, "warn")
       /\ downloads' # downloads => ExportFinished]_vars

\* C17 witness: two exports of one model, one saved as .glb and one as
\* .gltf with its warning.
C17_Witness ==
    /\ Len(exports) = 2
    /\ {exports[1].outcome, exports[2].outcome} = {"ArrayBuffer", "Json"}
    /\ Len(downloads) = 2
    /\ console = <<"warn">>
    /\ \E i \in 1..2 : downloads[i].filename = <<"a", ".glb">>
    /\ \E i \in 1..2 : downloads[i].filename = <<"a", ".gltf">>

\* C18: a parse call that finishes with an error logs one error and saves
\* no file; neither that step nor the handleDownload step changes status,
\* currentModel, generatedCode or anything else of the generator.
C18_ExportFailureContained ==
    [][/\ (ExportFinished /\ exports'[Len(exports')].outcome = "Error") =>
             /\ console' = Append(console, "error")
             /\ downloads' = downloads
             /\ Len(exportsPending') = Len(exportsPending) - 1
             /\ UNCHANGED <<status, currentModel, generatedCode>>
             /\ UNCHANGED appVars
       /\ HandleDownload =>
             /\ UNCHANGED <<status, currentModel, generatedCode>>
             /\ UNCHANGED <<appVars, downloads, console>>]_vars

\* C18 witness: an export failed: an error is logged, nothing is saved and
\* the model is still current with status SUCCESS.
C18_Witness ==
    /\ Len(exports) = 1
    /\ exports[1].outcome = "Error"
    /\ exportsPending = << >>
    /\ console = <<"error">>
    /\ downloads = << >>
    /\ status = "SUCCESS"
    /\ currentModel # Null

\* C20: the text generate3DModelCode returns contains no three backticks in
\* a row; if the response text contains "(THREE)", the returned text starts
\* with it; an absent or empty response text gives the empty text.
C20_ResponseCleanup ==
    lastCall.fn = "generate3DModelCode" =>
       LET text == lastCall.input
           code == lastCall.output
       IN /\ \A i \in 1..(Len(code) - 2) : SubSeq(code, i, i + 2) # Fence
          /\ (\E i \in DOMAIN text : text[i] = Marker) =>
                (code # << >> /\ code[1] = Marker)
          /\ (lastCall.absent \/ text = << >>) => code = << >>

\* C20 witness: prose, a js fence, the function and a closing fence came
\* back as the function alone.
C20_Witness ==
    /\ lastCall.fn = "generate3DModelCode"
    /\ lastCall.input = <<"x">> \o FenceJs \o <<Marker>> \o Fence
    /\ lastCall.output = <<Marker>>

\* C21: a step in which a request ends (resolved, failed or dropped after
\* abort) empties the controller slot if the slot holds that request's
\* controller and leaves it as it is otherwise; so the controller of a
\* newer request that is awaited stays in the slot, not aborted.
C21_SlotOwnership ==
    [][\A req \in pending \ pending' :
         /\ abortControllerRef' = (IF abortControllerRef = req.controller
                                     THEN Null ELSE abortControllerRef)
         /\ aborted' = aborted
         /\ \A newer \in pending' :
               (newer.controller > req.controller /\ ~aborted[newer.controller]) =>
                  /\ abortControllerRef' = newer.controller
                  /\ ~aborted'[newer.controller]]_vars

\* C21 witness: the request superseded by a newer one has ended, its
\* response dropped, and the slot still holds the newer request's
\* controller, which the Stop button shown would abort.
C21_Witness ==
    /\ dropped
    /\ Cardinality(pending) = 1
    /\ \E req \in pending :
         /\ req.controller = abortControllerRef
         /\ ~aborted[req.controller]
         /\ req.controller = Len(aborted)
         /\ aborted[req.controller - 1]
    /\ ui.status = "GENERATING"
    /\ ui.mode = "generator"

\* The rendered program text has been materialized: the scene the last
\* executeGeneratedCode call returned for it is attached and current, and
\* no request is in flight whose response could arrive.
Materialized ==
    /\ mode = "generator" /\ ui.mode = "generator"
    /\ generatedCode # "" /\ ui.generatedCode = generatedCode
    /\ generatedObjectMounted
    /\ group # Null /\ group = currentModel /\ cleanup = group
    /\ lastExec.code = generatedCode /\ lastExec.result = group
    /\ pending = {}

\* A step of the program alone: a render React had scheduled, in which no
\* handler ran and no response arrived.
QuietStep ==
    /\ Snapshot(St) # ui
    /\ <<mode, prompt, status, generatedCode, history, wireframe>>' =
         <<mode, prompt, status, generatedCode, history, wireframe>>
    /\ <<pending, aborted, abortControllerRef>>' = <<pending, aborted, abortControllerRef>>

\* C22: once the program text has been materialized, the steps the program
\* takes on its own (no user event, no response) invoke
\* executeGeneratedCode no more, dispose and publish no scene, and leave
\* currentModel as it is.
C22_Quiescence ==
    [][(Materialized /\ QuietStep) =>
          /\ evalCount' = evalCount
          /\ published' = published
          /\ heap' = heap
          /\ currentModel' = currentModel]_vars

\* C23: in every reachable state neither the scene registered as current
\* in App (currentModel) nor the scene attached in the viewport
\* (GeneratedObject's group) has had a geometry or material disposed.
C23_NoUseAfterDispose ==
    \A g \in {currentModel, Attached} \ {Null} : Undisposed(heap, g)

\* C24: a step in which a request ends changes generatedCode, status or
\* history only if status is GENERATING when the response arrives.
C24_OnlyWhileGenerating ==
    [][\A req \in pending \ pending' :
         <<generatedCode, status, history>>' # <<generatedCode, status, history>>
            => status = "GENERATING"]_vars

\* C25: every object URL handleFileUpload created has been revoked exactly
\* once if it is no longer the active one, and not at all while it is
\* active; none is ever revoked twice.
C25_RevokedExactlyOnce ==
    \A u \in DOMAIN objectUrls :
       objectUrls[u].revoked = (IF u = uploadedFileUrl THEN 0 ELSE 1)

\* C26: the entry a resolving request puts in front of history holds the
\* prompt that request was issued with and the text it returned, whatever
\* the prompt field holds when the response arrives.
C26_PromptCapture ==
    [][\A req \in pending \ pending' :
         history' # history =>
            /\ Len(history') = Len(history) + 1
            /\ history'[1].prompt = req.prompt
            /\ history'[1].code = generatedCode']_vars

\* C26 witness: the prompt field was emptied while the request issued
\* with "a" was in flight (the render before the response shows the empty
\* field and GENERATING); the entry just made holds "a" and the response.
C26_Witness ==
    /\ ui.status = "GENERATING" /\ ui.prompt = "" /\ ui.history = << >>
    /\ prompt = ""
    /\ status = "SUCCESS"
    /\ Len(history) = 1
    /\ history[1] = [prompt |-> "a", code |-> "grp"]
    /\ generatedCode = "grp"

\* C27: whenever status is SUCCESS, generatedCode is a non-empty program
\* text, and no history entry holds an empty code.
C27_SuccessImpliesProgram ==
    /\ status = "SUCCESS" => generatedCode # ""
    /\ \A k \in DOMAIN history : history[k].code # ""

====
